---- MODULE Spec2Model ----
(***************************************************************************)
(* A model of libfive's simplex tree (render/brep/simplex/simplex_tree.cpp) *)
(* : interval pruning, leaf evaluation with subspace borrowing, the        *)
(* pending-counter fan-in of collectChildren, index assignment and         *)
(* release of the tree to the object pools.                                *)
(***************************************************************************)
EXTENDS Integers, Sequences, FiniteSets, Bags, TLC

(* ------------------------------------------------------------------ *)
(* Dimensions and bounds                                              *)
(* ------------------------------------------------------------------ *)

\* The dimension the tree is instantiated for (simplex_tree2.cpp).
N == 2

\* Deepest level at which leaves are evaluated (min_feature).
MaxDepth == 2

\* How many nodes of one build may subdivide.
MaxSplit == 2

\* Size of the worker pool.
Workers == 2

\* How many times assignIndices() is called on a finished tree.
MaxIndexCalls == 2

RECURSIVE ipow(_, _)
ipow(b, e) == IF e = 0 THEN 1 ELSE b * ipow(b, e - 1)

NumCorners == ipow(2, N)
NumSubs == ipow(3, N)

Axes == 0 .. (N - 1)
Corners == 0 .. (NumCorners - 1)
Subs == 0 .. (NumSubs - 1)

\* f, evaluated once: TLC keeps [x \in S |-> e] as a closure and would evaluate
\* e again at every application
Strict(f) == f @@ <<>>

\* S, enumerated once: TLC keeps {x \in T : P(x)} as a predicate too
StrictSet(S) == {x : x \in S}

Pow2 == Strict([k \in 0 .. (N + 1) |-> ipow(2, k)])
Pow3 == Strict([k \in 0 .. (N + 1) |-> ipow(3, k)])

\* x & (1 << k), as an integer
AndBit(x, k) == ((x \div Pow2[k]) % 2) * Pow2[k]

\* bit k of x is set
HasBit(x, k) == (x \div Pow2[k]) % 2 = 1

\* the smallest and the largest element of a nonempty set of numbers
MinOf(S) == CHOOSE x \in S : \A y \in S : x <= y
MaxOf(S) == CHOOSE x \in S : \A y \in S : y <= x

(* ------------------------------------------------------------------ *)
(* NeighborIndex / CornerIndex: a base-3 digit per axis,              *)
(* LOW = 0, FLOATING = 1, HIGH = 2                                    *)
(* ------------------------------------------------------------------ *)

LOW == 0
FLOATING == 1
HIGH == 2

Digit(j, a) == (j \div Pow3[a]) % 3

RECURSIVE MaskOf(_, _, _)
\* the bitmask of the axes below `a` whose digit in j is `dig`
MaskOf(j, dig, a) ==
    IF a = 0 THEN 0
    ELSE MaskOf(j, dig, a - 1)
         + (IF Digit(j, a - 1) = dig THEN Pow2[a - 1] ELSE 0)

FloatingTab == Strict([j \in Subs |-> MaskOf(j, FLOATING, N)])
PosTab == Strict([j \in Subs |-> MaskOf(j, HIGH, N)])

NI_floating(j) == FloatingTab[j]
NI_pos(j) == PosTab[j]
NI_fixed(j) == (NumCorners - 1) - FloatingTab[j]
NI_dimension(j) == Cardinality({a \in Axes : Digit(j, a) = FLOATING})

RECURSIVE FromMasks(_, _, _)
FromMasks(pos, floating, a) ==
    IF a = 0 THEN 0
    ELSE FromMasks(pos, floating, a - 1)
         + Pow3[a - 1] * (IF HasBit(floating, a - 1) THEN FLOATING
                          ELSE IF HasBit(pos, a - 1) THEN HIGH ELSE LOW)

NI_fromPosAndFloating(pos, floating) == FromMasks(pos, floating, N)

\* self contains other: every axis fixed in self is fixed identically in other
NI_contains(self, other) ==
    \A a \in Axes : Digit(self, a) # FLOATING => Digit(other, a) = Digit(self, a)

\* CornerIndex(c).neighbor(): all axes fixed, on the corner's side
CornerNeighbor(c) == NI_fromPosAndFloating(c, 0)

CornerSub == Strict([c \in Corners |-> CornerNeighbor(c)])

(* ------------------------------------------------------------------ *)
(* Tree nodes: 0 is the root, the children of n are K*n+1 .. K*n+K     *)
(* ------------------------------------------------------------------ *)

NumNodes == (ipow(NumCorners, MaxDepth + 1) - 1) \div (NumCorners - 1)
Nodes == 0 .. (NumNodes - 1)
NULL == -1

ChildOf(n, i) == NumCorners * n + 1 + i
ParentOf(n) == IF n = 0 THEN NULL ELSE (n - 1) \div NumCorners
IndexOf(n) == IF n = 0 THEN 0 ELSE (n - 1) % NumCorners

RECURSIVE DepthRec(_)
DepthRec(n) == IF n = 0 THEN 0 ELSE 1 + DepthRec(ParentOf(n))

RECURSIVE CoordRec(_, _)
CoordRec(n, a) ==
    IF n = 0 THEN 0
    ELSE 2 * CoordRec(ParentOf(n), a) + (IF HasBit(IndexOf(n), a) THEN 1 ELSE 0)

DepthTab == Strict([n \in Nodes |-> DepthRec(n)])
CoordTab == Strict([n \in Nodes |-> Strict([a \in Axes |-> CoordRec(n, a)])])

\* depth of node n, and the position of its cell, on axis a, in the grid of
\* its depth
DepthOf(n) == DepthTab[n]
CoordOf(n, a) == CoordTab[n][a]

(* ------------------------------------------------------------------ *)
(* Region: the root box is split by bisection                          *)
(* ------------------------------------------------------------------ *)

\* lower corner of the root region, per axis (different on every axis)
RootLower(a) == 100 * a

CellSize(n) == ipow(2, MaxDepth + 1 - DepthOf(n))

LowerTab ==
    Strict([n \in Nodes |->
        Strict([a \in Axes |-> RootLower(a) + CoordOf(n, a) * CellSize(n)])])
UpperTab ==
    Strict([n \in Nodes |-> Strict([a \in Axes |-> LowerTab[n][a] + CellSize(n)])])

RegionLower(n, a) == LowerTab[n][a]
RegionUpper(n, a) == UpperTab[n][a]

\* region.corner(c)
RegionCorner(n, c) ==
    Strict([a \in Axes |->
        IF HasBit(c, a) THEN RegionUpper(n, a) ELSE RegionLower(n, a)])

\* the subspace j of cell n as a geometric object: per axis, the position on
\* the grid of half cells of the depth of n
Geo(n, j) == Strict([a \in Axes |-> 2 * CoordOf(n, a) + Digit(j, a)])

GeoTab == Strict([n \in Nodes |-> Strict([j \in Subs |-> Geo(n, j)])])

\* two distinct cells of the same depth that touch
Adjacent(n, m) ==
    /\ n # m
    /\ DepthOf(n) = DepthOf(m)
    /\ \A a \in Axes : CoordOf(n, a) - CoordOf(m, a) \in {-1, 0, 1}

AdjTab == Strict([n \in Nodes |-> StrictSet({m \in Nodes : Adjacent(n, m)})])

\* NeighborTables: for subspace i of cell n, the (neighbor, subspace of the
\* neighbor) pairs that are the same subspace
ShareTab ==
    Strict([n \in Nodes |-> Strict([i \in Subs |->
        StrictSet({q \in AdjTab[n] \X Subs :
                      GeoTab[q[1]][q[2]] = GeoTab[n][i]})])])

(* ------------------------------------------------------------------ *)
(* State                                                               *)
(* ------------------------------------------------------------------ *)

VARIABLES
    leafDepth,  \* depth at which a cell is no larger than min_feature
    maxErr,     \* max_err of the build
    solver,     \* how the QEFs of this build solve: see Solvers
    shape,      \* the function being meshed: see Shapes
    alive,      \* alive[n]: the node is allocated from the tree pool
    ntype,      \* ntype[n]: Interval tag of node n
    children,   \* children[n][i]: the atomic child pointers of n
    pending,    \* pending[n]: the fan-in counter of n
    leaf,       \* leaf[n]: the SimplexLeaf of n (has = FALSE: nullptr)
    objs,       \* the SimplexLeafSubspace objects ever allocated, by address
    pool,       \* the subspace pool: objects held for reuse, get/put counts
    tasks,      \* the stack of subdivision tasks, top last
    wk,         \* wk[w]: the worker's position in its loop
    splits,     \* number of nodes subdivided so far
    phase,      \* "build", "built" (root finished), "releasing", "released"
    idxCalls,   \* number of assignIndices() calls made
    doneSig,    \* doneSig[n]: done() has been called on n
    calls,      \* calls[n]: collectChildren calls on n, and how many passed
    last        \* the last handler that ran, with its inputs and results

vars == <<leafDepth, maxErr, solver, shape, alive, ntype, children, pending, leaf,
          objs, pool, tasks, wk, splits, phase, idxCalls, doneSig, calls, last>>

WorkerIds == 1 .. Workers

Types == {"UNKNOWN", "EMPTY", "FILLED", "AMBIGUOUS"}

\* SimplexLeafSubspace::SimplexLeafSubspace / reset
FreshSub ==
    [inside |-> FALSE, index |-> 0, vert |-> Strict([a \in Axes |-> 0]),
     qef |-> EmptyBag, refcount |-> 0]

\* SimplexLeaf::reset, and the null leaf pointer
NoLeaf ==
    [has |-> FALSE, level |-> 0, tape |-> 0, sub |-> Strict([i \in Subs |-> NULL])]

NoChildren == Strict([i \in Corners |-> NULL])

\* XTree::reset: pending starts at 2^N - 1
PendingInit == NumCorners - 1

\* XTree::isBranch
isBranch(ch, n) == ch[n][0] # NULL

Idle == [pc |-> "idle", t |-> NULL, nb |-> {}, tape |-> 0]

\* The function being meshed: negative exactly in the box lo <= p <= hi.
Box(l0, h0, l1, h1) ==
    [lo |-> Strict([a \in Axes |-> IF a = 0 THEN l0 ELSE l1]),
     hi |-> Strict([a \in Axes |-> IF a = 0 THEN h0 ELSE h1])]

\* a quadrant of the root region, one point at its centre, everything, nothing
Shapes ==
    {Box(-1000, 2, -1000, 102),
     Box(4, 4, 104, 104),
     Box(-1000, 1000, -1000, 1000),
     Box(1000, 1000, 1000, 1000)}

\* eval->array.values(1, tape)[0] < 0 at position v
ShapeInside(sh, v) == \A a \in Axes : sh.lo[a] <= v[a] /\ v[a] <= sh.hi[a]

\* the interval results evalAndPush may give on the region of node n:
\* interval arithmetic is sound, and may be too wide
IntervalStates(sh, n) ==
    IF \A a \in Axes : sh.lo[a] <= RegionLower(n, a) /\ RegionUpper(n, a) <= sh.hi[a]
    THEN {"FILLED", "AMBIGUOUS"}
    ELSE IF \E a \in Axes : RegionUpper(n, a) < sh.lo[a] \/ sh.hi[a] < RegionLower(n, a)
    THEN {"EMPTY", "AMBIGUOUS"}
    ELSE {"AMBIGUOUS"}

\* the solvers the model draws from: where in the region the minimiser lands,
\* and the residual
Solvers == {[at |-> "lower", error |-> 0], [at |-> "upper", error |-> 1]}

Init ==
    /\ leafDepth \in 0 .. MaxDepth
    /\ maxErr \in {0, 1}
    /\ solver \in Solvers
    /\ shape \in Shapes
    /\ alive = [n \in Nodes |-> n = 0]
    /\ ntype = [n \in Nodes |-> "UNKNOWN"]
    /\ children = [n \in Nodes |-> NoChildren]
    /\ pending = [n \in Nodes |-> PendingInit]
    /\ leaf = [n \in Nodes |-> NoLeaf]
    /\ objs = <<>>
    /\ pool = [pooled |-> {}, gets |-> 0, puts |-> 0]
    /\ tasks = <<[target |-> 0, tape |-> 0, pnb |-> {}]>>
    /\ wk = [w \in WorkerIds |-> Idle]
    /\ splits = 0
    /\ phase = "build"
    /\ idxCalls = 0
    /\ doneSig = [n \in Nodes |-> FALSE]
    /\ calls = [n \in Nodes |-> [made |-> 0, passed |-> 0]]
    /\ last = [op |-> "none"]

(* ------------------------------------------------------------------ *)
(* Neighbors                                                           *)
(* ------------------------------------------------------------------ *)

\* SimplexNeighbors::push: the neighbors of child n, from the neighbors pnb
\* of its parent and the child pointers set so far
PushNeighbors(ch, pnb, n) ==
    {m \in AdjTab[n] :
        /\ \/ ParentOf(m) = ParentOf(n)
           \/ ParentOf(m) \in pnb
        /\ ch[ParentOf(m)][IndexOf(m)] = m}

\* the (neighbor, subspace) pairs in which a neighbor leaf holds subspace i
\* of n
Holders(lf, nb, n, i) ==
    StrictSet({q \in ShareTab[n][i] : q[1] \in nb /\ lf[q[1]].has})

\* SimplexNeighbors::check: the subspace object a neighbor leaf holds for
\* subspace i of n, or NULL
NeighborsCheck(lf, nb, n, i) ==
    LET h == Holders(lf, nb, n, i)
    IN  IF h = {} THEN NULL
        ELSE LET q == CHOOSE r \in h : \A t \in h : r[1] <= t[1]
             IN  lf[q[1]].sub[q[2]]

(* ------------------------------------------------------------------ *)
(* Worker loop: taking a task                                          *)
(* ------------------------------------------------------------------ *)

\* An idle worker pops a task and, at this last minute, builds the neighbor
\* table of its target.  Idle workers are interchangeable: the lowest one pops.
Pop(w) ==
    /\ phase = "build"
    /\ wk[w].pc = "idle"
    /\ \A v \in WorkerIds : v < w => wk[v].pc # "idle"
    /\ tasks # <<>>
    /\ \E task \in {tasks[Len(tasks)]} :
         /\ tasks' = SubSeq(tasks, 1, Len(tasks) - 1)
         /\ wk' = [wk EXCEPT ![w] =
                     [pc |-> "eval", t |-> task.target,
                      nb |-> PushNeighbors(children, task.pnb, task.target),
                      tape |-> task.tape]]
    /\ last' = [op |-> "pop"]
    /\ UNCHANGED <<leafDepth, maxErr, solver, shape, alive, ntype, children, pending,
                   leaf, objs, pool, splits, phase, idxCalls, doneSig, calls>>

\* XTree::done: publish the node in its parent's child array
DoneChildren(ch, n) ==
    IF n = 0 THEN ch
    ELSE [ch EXCEPT ![ParentOf(n)][IndexOf(n)] = n]

\* where the worker goes after finishing node n: up to the parent, or, at the
\* root, out of the loop
AfterNode(w, n) ==
    IF n = 0 THEN Idle
    ELSE [pc |-> "up", t |-> ParentOf(n), nb |-> {}, tape |-> wk[w].tape]

(* ------------------------------------------------------------------ *)
(* evalInterval                                                        *)
(* ------------------------------------------------------------------ *)

\* done() signaled whatever the interval state
IntervalDoneAlways(type) == TRUE

\* evalInterval signals done() for these interval states
IntervalDone(type) == type \in {"FILLED", "EMPTY"}

\* the interval state stored whether or not the evaluator was safe
IntervalTypeTrusting(state, safe) == state

\* the type evalInterval stores: the interval state, AMBIGUOUS if unsafe
IntervalType(state, safe) == IF safe THEN state ELSE "AMBIGUOUS"

\* the tape handle evalInterval returns: o.second if safe, else the one given
IntervalTape(tape, safe) == IF safe THEN tape + 1 ELSE tape

EvalInterval(w) ==
    /\ wk[w].pc = "eval"
    /\ DepthOf(wk[w].t) < leafDepth
    /\ \E state \in IntervalStates(shape, wk[w].t), safe \in BOOLEAN :
         LET n == wk[w].t
             type == IntervalType(state, safe)
             sig == safe /\ IntervalDone(type)
             tape == IntervalTape(wk[w].tape, safe)
             kids == {ChildOf(n, i) : i \in Corners}
         IN
         /\ ntype' = [ntype EXCEPT ![n] = type]
         /\ doneSig' = [doneSig EXCEPT ![n] = @ \/ sig]
         /\ children' = IF sig THEN DoneChildren(children, n) ELSE children
         /\ last' = [op |-> "evalInterval", node |-> n, state |-> state,
                     safe |-> safe, given |-> wk[w].tape, ret |-> tape,
                     done |-> sig]
         /\ IF type = "AMBIGUOUS"
            THEN \* the worker subdivides and queues the children
                 /\ splits < MaxSplit
                 /\ splits' = splits + 1
                 /\ alive' = [m \in Nodes |-> alive[m] \/ m \in kids]
                 /\ tasks' = tasks \o
                       [i \in 1 .. NumCorners |->
                          [target |-> ChildOf(n, i - 1), tape |-> tape,
                           pnb |-> wk[w].nb]]
                 /\ wk' = [wk EXCEPT ![w] = Idle]
                 /\ phase' = phase
            ELSE /\ wk' = [wk EXCEPT ![w] = AfterNode(w, n)]
                 /\ phase' = IF n = 0 THEN "built" ELSE phase
                 /\ UNCHANGED <<splits, alive, tasks>>
    /\ UNCHANGED <<leafDepth, maxErr, solver, shape, pending, leaf, objs, pool,
                   idxCalls, calls>>

(* ------------------------------------------------------------------ *)
(* The subspace pool.  A pool state is [objs, pooled, gets, puts]: the *)
(* heap of subspace objects, the objects held for reuse, and the       *)
(* number of get() and put() calls.                                    *)
(* ------------------------------------------------------------------ *)

PoolNow == [objs |-> objs, pooled |-> pool.pooled, gets |-> pool.gets,
            puts |-> pool.puts]

\* the address of the subspace that slot i of the leaf of node n gets
ObjId(n, i) == n * NumSubs + i + 1

\* a release that leaves the refcount as it was
RefDecrementNone(r) == r

\* --s->refcount on an atomic<uint32_t>; -1 stands for the wrapped value
RefDecrement(r) == IF r = 0 THEN -1 ELSE r - 1

\* SimplexLeaf::releaseTo hands a subspace back when this holds after the
\* decrement
RefReleased(r) == r = 0

RECURSIVE ReleaseTimes(_, _)
\* `if (--s->refcount == 0) put(s)` applied k times to one subspace: the
\* subspace afterwards and the number of put() calls
ReleaseTimes(acc, k) ==
    IF k = 0 THEN acc
    ELSE LET r == RefDecrement(acc.obj.refcount)
         IN  ReleaseTimes(IF RefReleased(r)
                          THEN [obj |-> FreshSub, puts |-> acc.puts + 1]
                          ELSE [obj |-> [acc.obj EXCEPT !.refcount = r],
                                puts |-> acc.puts],
                          k - 1)

\* SimplexLeaf::releaseTo: the loop over sub[] drops one reference per slot
\* and hands the subspaces that reach zero back to the pool
LeafRelease(ps, sub) ==
    LET held == {sub[i] : i \in Subs}
        rel == Strict([id \in held |->
                  ReleaseTimes([obj |-> ps.objs[id], puts |-> 0],
                               Cardinality({i \in Subs : sub[i] = id}))])
        back == StrictSet({id \in held : rel[id].puts > 0})
    IN  [objs |-> Strict([id \in DOMAIN ps.objs |->
                     IF id \in held THEN rel[id].obj ELSE ps.objs[id]]),
         pooled |-> ps.pooled \cup back,
         gets |-> ps.gets,
         puts |-> ps.puts + Cardinality(back)]

(* ------------------------------------------------------------------ *)
(* QEF solve and vertex placement (Unroller)                           *)
(* ------------------------------------------------------------------ *)

\* the axes set in a mask, in increasing order
RECURSIVE AxesOf(_, _)
AxesOf(mask, a) ==
    IF a >= N THEN <<>>
    ELSE (IF HasBit(mask, a) THEN <<a>> ELSE <<>>) \o AxesOf(mask, a + 1)

\* Region::subspace<mask>(): the region over the axes of the mask
RegionSubspace(n, mask) ==
    LET ax == AxesOf(mask, 0)
    IN  [lower |-> Strict([k \in 1 .. Len(ax) |-> RegionLower(n, ax[k])]),
         upper |-> Strict([k \in 1 .. Len(ax) |-> RegionUpper(n, ax[k])])]

\* QEF::solveBounded(r): a position inside r and an error >= 0
SolveBounded(sv, r) ==
    [position |-> IF sv.at = "lower" THEN r.lower ELSE r.upper,
     error |-> sv.error]

RECURSIVE UnpackFrom(_, _, _, _, _)
\* the loop over the axes i .. N-1 that unpacks sol into vert; j counts the
\* coordinates of sol used so far
UnpackFrom(n, s, sol, i, acc) ==
    IF i >= N THEN acc
    ELSE UnpackFrom(n, s, sol, i + 1,
           IF AndBit(NI_floating(s), i) # 0
           THEN [vert |-> [acc.vert EXCEPT ![i] = sol.position[acc.j + 1]],
                 j |-> acc.j + 1]
           ELSE IF AndBit(NI_pos(s), i) # 0
           THEN [acc EXCEPT !.vert[i] = RegionUpper(n, i)]
           ELSE [acc EXCEPT !.vert[i] = RegionLower(n, i)])

\* the unpacking with every fixed axis set to region.lower
UnrollOneLow(n, s, sv, vert) ==
    LET sol == SolveBounded(sv, RegionSubspace(n, NI_floating(s)))
        rank(a) == Cardinality({b \in Axes : b <= a /\ Digit(s, b) = FLOATING})
    IN  [vert |-> Strict([a \in Axes |->
                    IF Digit(s, a) = FLOATING THEN sol.position[rank(a)]
                    ELSE RegionLower(n, a)]),
         j |-> NI_dimension(s), error |-> sol.error]

\* Unroller::operator() for one subspace s that is not already solved: the
\* vertex, the number of coordinates unpacked and the error
UnrollOne(n, s, sv, vert) ==
    LET sol == SolveBounded(sv, RegionSubspace(n, NI_floating(s)))
        out == UnpackFrom(n, s, sol, 0, [vert |-> vert, j |-> 0])
    IN  [vert |-> out.vert, j |-> out.j, error |-> sol.error]

\* the sources taken the other way round: the subspaces that contain s
UnrollSourcesAbove(s) == StrictSet({i \in Subs : NI_contains(i, s)})

\* the subspaces of a leaf whose QEF is summed into the QEF solved for s
UnrollSources(s) == StrictSet({i \in Subs : NI_contains(s, i)})

RECURSIVE CopiesOf(_, _)
\* the number of samples of the QEF q among the elements of S
CopiesOf(q, S) ==
    IF S = {} THEN 0
    ELSE LET e == CHOOSE x \in S : TRUE
         IN  q[e] + CopiesOf(q, S \ {e})

\* QEF::sub<mask>(): every sample projected on the axes of the mask
QEFSub(q, mask) ==
    IF q = EmptyBag THEN EmptyBag
    ELSE LET ax == AxesOf(mask, 0)
             proj(e) == Strict([k \in 1 .. Len(ax) |-> e[ax[k]]])
             els == StrictSet(BagToSet(q))
         IN  Strict([p \in {proj(e) : e \in els} |->
                       CopiesOf(q, StrictSet({e \in els : proj(e) = p}))])

SourcesTab == Strict([s \in Subs |-> UnrollSources(s)])

RECURSIVE UnrollQEFFrom(_, _, _, _)
\* the loop `for i: if (SubspaceIndex.contains(i)) qef += sub[i]->qef.sub()`
\* from slot i on: the QEF solved for subspace s
UnrollQEFFrom(o, sub, s, i) ==
    IF i >= NumSubs THEN EmptyBag
    ELSE (IF i \in SourcesTab[s]
          THEN QEFSub(o[sub[i]].qef, NI_floating(s)) ELSE EmptyBag)
         (+) UnrollQEFFrom(o, sub, s, i + 1)

\* the QEF the Unroller solves for each slot that is not already solved, and
\* the QEF each slot of the leaf holds at that moment
UnrollQEFs(o, sub, solved) ==
    [summed |-> Strict([s \in Subs |->
                   IF solved[s] THEN EmptyBag ELSE UnrollQEFFrom(o, sub, s, 0)]),
     qefs |-> Strict([i \in Subs |-> o[sub[i]].qef])]

\* the slot of the leaf, among those not already solved, that holds object id
\* (NULL if none)
SlotOf(sub, solved, id) ==
    LET at == StrictSet({s \in Subs : sub[s] = id /\ ~solved[s]})
    IN  IF at = {} THEN NULL ELSE MinOf(at)

\* Unroller<N, 3^N - 1>, ..., Unroller<N, 0>: the heap with the vertices
\* stored, and the largest error (0.0 if nothing was solved)
Unroll(o, n, sub, solved, sv) ==
    [objs |-> Strict([id \in DOMAIN o |->
                 LET s == SlotOf(sub, solved, id)
                 IN  IF s = NULL THEN o[id]
                     ELSE [o[id] EXCEPT !.vert =
                             UnrollOne(n, s, sv, o[id].vert).vert]]),
     error |-> MaxOf({0} \cup
                 {UnrollOne(n, s, sv, o[sub[s]].vert).error :
                    s \in {t \in Subs : ~solved[t]}})]

\* the number of coordinates the Unroller unpacked for each slot it solved
Unpacked(o, n, sub, solved, sv) ==
    Strict([s \in Subs |->
        IF solved[s] THEN 0 ELSE UnrollOne(n, s, sv, o[sub[s]].vert).j])

\* saveVertexSigns: the sign of the function at the vertex of every subspace
\* that is not already solved
SaveVertexSigns(o, sub, solved, sh) ==
    Strict([id \in DOMAIN o |->
        LET s == SlotOf(sub, solved, id)
        IN  IF s = NULL THEN o[id]
            ELSE [o[id] EXCEPT !.inside = ShapeInside(sh, o[id].vert)]])

(* ------------------------------------------------------------------ *)
(* evalLeaf                                                            *)
(* ------------------------------------------------------------------ *)

\* the borrowing loop of evalLeaf, given what neighbors.check answered for
\* each slot (c): sub[i] is taken from a neighbor, or a fresh subspace is
\* taken from the pool; the refcount of each is incremented
BorrowFrom(ps, n, c) ==
    LET sub == Strict([i \in Subs |-> IF c[i] # NULL THEN c[i] ELSE ObjId(n, i)])
        fresh == {ObjId(n, i) : i \in StrictSet({k \in Subs : c[k] = NULL})}
        refs(id) == Cardinality({i \in Subs : sub[i] = id})
    IN  [ps |-> [objs |-> Strict([id \in DOMAIN ps.objs \cup fresh |->
                             IF id \in fresh
                             THEN [FreshSub EXCEPT !.refcount = refs(id)]
                             ELSE [ps.objs[id] EXCEPT !.refcount = @ + refs(id)]]),
                 pooled |-> ps.pooled,
                 gets |-> ps.gets + Cardinality(fresh),
                 puts |-> ps.puts],
         sub |-> sub,
         solved |-> Strict([i \in Subs |-> c[i] # NULL])]

\* the borrowing loop of evalLeaf on node n
Borrow(ps, lf, nb, n) ==
    BorrowFrom(ps, n, Strict([i \in Subs |-> NeighborsCheck(lf, nb, n, i)]))

\* every corner sent to the evaluator, borrowed or not
SampledCornersAll(solved) == Corners

\* the corners evalLeaf sends to the evaluator
SampledCorners(solved) == StrictSet({c \in Corners : ~solved[CornerSub[c]]})

\* the corner samples pushed into the QEFs of the corners that were not
\* borrowed
InsertCorners(o, n, sub, solved) ==
    Strict([id \in DOMAIN o |->
        LET cs == StrictSet({c \in SampledCorners(solved) : sub[CornerSub[c]] = id})
        IN  IF cs = {} THEN o[id]
            ELSE [o[id] EXCEPT !.qef =
                    @ (+) SetToBag({RegionCorner(n, MinOf(cs))})]])

\* the type of a leaf called FILLED as soon as one subspace is inside
LeafTypeSome(o, sub) ==
    IF \E i \in Subs : o[sub[i]].inside THEN "FILLED"
    ELSE IF \A i \in Subs : ~o[sub[i]].inside THEN "EMPTY"
    ELSE "AMBIGUOUS"

\* the tree type evalLeaf stores, from the inside flags of all subspaces
LeafType(o, sub) ==
    IF \A i \in Subs : o[sub[i]].inside THEN "FILLED"
    ELSE IF \A i \in Subs : ~o[sub[i]].inside THEN "EMPTY"
    ELSE "AMBIGUOUS"

\* the release test of a build that keeps the leaf whatever its type
LeafDroppedNever(type) == FALSE

\* evalLeaf releases the leaf it built for these types
LeafDropped(type) == type # "AMBIGUOUS"

\* the end of evalLeaf, from the heap o3 with vertices and signs stored: the
\* type, the release of a leaf that is not AMBIGUOUS, and what was stored in
\* each slot
LeafClassify(b, o3, unpacked, q) ==
    LET type == LeafType(o3, b.sub)
        built == [b.ps EXCEPT !.objs = o3]
    IN  [sub |-> b.sub, solved |-> b.solved, type |-> type,
         ps |-> IF LeafDropped(type) THEN LeafRelease(built, b.sub) ELSE built,
         inside |-> Strict([i \in Subs |-> o3[b.sub[i]].inside]),
         vert |-> Strict([i \in Subs |-> o3[b.sub[i]].vert]),
         unpacked |-> unpacked, q |-> q,
         refs |-> Strict([i \in Subs |-> b.ps.objs[b.sub[i]].refcount]),
         sampled |-> SampledCorners(b.solved)]

\* evalLeaf from the Unroller on, from the heap o1 with the corner samples
\* inserted
LeafSolve(b, o1, n, sv, sh) ==
    LeafClassify(b,
                 SaveVertexSigns(Unroll(o1, n, b.sub, b.solved, sv).objs,
                                 b.sub, b.solved, sh),
                 Unpacked(o1, n, b.sub, b.solved, sv),
                 UnrollQEFs(o1, b.sub, b.solved))

\* evalLeaf after the borrowing loop: the corner samples, then the rest
LeafSample(b, n, sv, sh) ==
    LeafSolve(b, InsertCorners(b.ps.objs, n, b.sub, b.solved), n, sv, sh)

\* the body of evalLeaf on node n: the slots of the leaf it builds, its
\* type, the pool afterwards and what it stored in each slot
LeafBuild(ps, lf, nb, n, sv, sh) ==
    LeafSample(Borrow(ps, lf, nb, n), n, sv, sh)

EvalLeaf(w) ==
    /\ wk[w].pc = "eval"
    /\ DepthOf(wk[w].t) >= leafDepth
    /\ \E n \in {wk[w].t} :
       \E r \in {LeafBuild(PoolNow, leaf, wk[w].nb, n, solver, shape)} :
         /\ ntype' = [ntype EXCEPT ![n] = r.type]
         /\ leaf' = [leaf EXCEPT ![n] =
                       IF LeafDropped(r.type) THEN NoLeaf
                       ELSE [has |-> TRUE, level |-> 0, tape |-> wk[w].tape,
                             sub |-> r.sub]]
         /\ objs' = r.ps.objs
         /\ pool' = [pooled |-> r.ps.pooled, gets |-> r.ps.gets,
                     puts |-> r.ps.puts]
         /\ doneSig' = [doneSig EXCEPT ![n] = TRUE]
         /\ children' = DoneChildren(children, n)
         /\ wk' = [wk EXCEPT ![w] = AfterNode(w, n)]
         /\ phase' = IF n = 0 THEN "built" ELSE phase
         /\ last' = [op |-> "evalLeaf", node |-> n, sub |-> r.sub,
                     solved |-> r.solved,
                     inside |-> r.inside, vert |-> r.vert,
                     unpacked |-> r.unpacked, q |-> r.q,
                     refs |-> r.refs, sampled |-> r.sampled]
    /\ UNCHANGED <<leafDepth, maxErr, solver, shape, alive, pending, tasks, splits,
                   idxCalls, calls>>

(* ------------------------------------------------------------------ *)
(* collectChildren                                                     *)
(* ------------------------------------------------------------------ *)

\* the gate tested as if pending started at 2^N: no call finds it open
PendingGateLate(p) == p + 1 = 0

\* `if (this->pending-- != 0) return false;` on the value before the
\* decrement: the call goes on when this holds
PendingGate(p) == p = 0

\* the validity test: may the QEF of subspace j of child c be counted
RECURSIVE ValidFrom(_, _, _)
ValidFrom(c, j, d) ==
    IF d >= N THEN TRUE
    ELSE /\ (AndBit(NI_fixed(j), d) # 0 =>
               (AndBit(NI_pos(j), d) # 0 \/ AndBit(c, d) # 0))
         /\ ValidFrom(c, j, d + 1)

CollectValid(c, j) == ValidFrom(c, j, 0)

\* the masks floating_out and pos_out built by the loop over the axes d .. N-1
RECURSIVE TargetMasks(_, _, _, _)
TargetMasks(c, j, d, acc) ==
    IF d >= N THEN acc
    ELSE TargetMasks(c, j, d + 1,
           IF \/ AndBit(NI_floating(j), d) # 0
              \/ AndBit(NI_pos(j), d) # AndBit(c, N)
           THEN [acc EXCEPT !.floating = @ + Pow2[d]]
           ELSE [acc EXCEPT !.pos = @ + AndBit(NI_pos(j), d)])

\* the parent subspace that receives the QEF of subspace j of child c
CollectTarget(c, j) ==
    LET m == TargetMasks(c, j, 0, [pos |-> 0, floating |-> 0])
    IN  NI_fromPosAndFloating(m.pos, m.floating)

ValidTab ==
    Strict([c \in Corners |-> Strict([j \in Subs |-> CollectValid(c, j)])])
TargetTab ==
    Strict([c \in Corners |-> Strict([j \in Subs |-> CollectTarget(c, j)])])

\* the (child, subspace) pairs in the order of the two nested loops
PairSeq ==
    Strict([k \in 1 .. (NumCorners * NumSubs) |->
        <<(k - 1) \div NumSubs, (k - 1) % NumSubs>>])

\* the pairs whose QEF collectChildren adds to the parent, with the parent
\* subspace each is added to
CountedAdds(ty, cs) ==
    {<<c, j, TargetTab[c][j]>> : <<c, j>> \in
        {q \in Corners \X Subs : ty[cs[q[1]]] = "AMBIGUOUS" /\ ValidTab[q[1]][q[2]]}}

RECURSIVE BagSum(_, _)
\* the sum (+=) of the QEFs of the objects listed in ids
BagSum(o, ids) ==
    IF ids = <<>> THEN EmptyBag
    ELSE o[Head(ids)].qef (+) BagSum(o, Tail(ids))

\* the subsequence of PairSeq, from the k-th pair on, of the counted pairs
\* that are added to parent subspace t
RECURSIVE PairsInto(_, _, _, _)
PairsInto(ty, cs, t, k) ==
    IF k > NumCorners * NumSubs THEN <<>>
    ELSE (IF /\ ty[cs[PairSeq[k][1]]] = "AMBIGUOUS"
             /\ ValidTab[PairSeq[k][1]][PairSeq[k][2]]
             /\ TargetTab[PairSeq[k][1]][PairSeq[k][2]] = t
          THEN <<PairSeq[k]>> ELSE <<>>) \o PairsInto(ty, cs, t, k + 1)

\* the two nested loops that sum the child QEFs into the QEFs of the
\* tentative parent leaf (whose subspaces are psub)
SumChildren(o, lf, ty, cs, psub) ==
    Strict([id \in DOMAIN o |->
        IF \E t \in Subs : psub[t] = id
        THEN LET t == CHOOSE u \in Subs : psub[u] = id
                 from == PairsInto(ty, cs, t, 1)
             IN  [o[id] EXCEPT !.qef = @ (+)
                    BagSum(o, Strict([k \in 1 .. Len(from) |->
                                 lf[cs[from[k][1]]].sub[from[k][2]]]))]
        ELSE o[id]])

\* `for (auto& s: this->leaf->sub) get(&s)`: 3^N subspaces from the pool
GetSubs(ps, n) ==
    [ps EXCEPT !.objs = Strict([id \in DOMAIN @ \cup {ObjId(n, i) : i \in Subs} |->
                           IF id \in {ObjId(n, i) : i \in Subs}
                           THEN FreshSub ELSE @[id]]),
               !.gets = @ + NumSubs]

\* SimplexTree::level() of a child that is no branch
LevelOf(ty, lf, c) == IF ty[c] = "AMBIGUOUS" THEN lf[c].level ELSE 0

\* the condition under which the tentative leaf is kept (the collapse)
CollapseTest(err, max_err) == err < max_err /\ FALSE

\* SimplexTree::releaseTo of the children in cs, from index `from` on: the
\* leaf of each goes back to the pools
RECURSIVE ReleaseLeaves(_, _, _, _)
ReleaseLeaves(ps, lf, cs, from) ==
    IF from >= NumCorners THEN ps
    ELSE ReleaseLeaves(IF lf[cs[from]].has
                       THEN LeafRelease(ps, lf[cs[from]].sub) ELSE ps,
                       lf, cs, from + 1)

\* what collectChildren does on node p once the gate is passed: the new type
\* and leaf of p, the pool, and whether the children are released
Collect(p, ps, sh) ==
    LET cs == children[p]
        kids == {cs[i] : i \in Corners}
        all_empty == \A c \in kids : ntype[c] = "EMPTY"
        all_full == \A c \in kids : ntype[c] = "FILLED"
        type == IF all_empty THEN "EMPTY"
                ELSE IF all_full THEN "FILLED" ELSE "AMBIGUOUS"
        psub == Strict([i \in Subs |-> ObjId(p, i)])
        g == GetSubs(ps, p)
        o1 == SumChildren(g.objs, leaf, ntype, cs, psub)
        nosolved == Strict([i \in Subs |-> FALSE])
        u == Unroll(o1, p, psub, nosolved, solver)
        level == 1 + MaxOf({LevelOf(ntype, leaf, c) : c \in kids})
    IN
    IF \E c \in kids : isBranch(children, c)
    THEN [kind |-> "branch", type |-> ntype[p], leaf |-> leaf[p], ps |-> ps,
          release |-> FALSE]
    ELSE IF type \in {"FILLED", "EMPTY"}
    THEN [kind |-> "uniform", type |-> type, leaf |-> leaf[p],
          ps |-> ReleaseLeaves(ps, leaf, cs, 0), release |-> TRUE]
    ELSE IF CollapseTest(u.error, maxErr)
    THEN [kind |-> "collapsed", type |-> type,
          leaf |-> [has |-> TRUE, level |-> level, tape |-> 0, sub |-> psub],
          ps |-> ReleaseLeaves(
                   [g EXCEPT !.objs = SaveVertexSigns(u.objs, psub, nosolved, sh)],
                   leaf, cs, 0),
          release |-> TRUE, err |-> u.error, sub |-> psub,
          adds |-> CountedAdds(ntype, cs), level |-> level,
          vert |-> Strict([i \in Subs |-> u.objs[psub[i]].vert]),
          unpacked |-> Unpacked(o1, p, psub, nosolved, solver),
          q |-> UnrollQEFs(o1, psub, nosolved)]
    ELSE [kind |-> "abandoned", type |-> type, leaf |-> NoLeaf,
          ps |-> [g EXCEPT !.objs = u.objs], release |-> FALSE,
          err |-> u.error, sub |-> psub, adds |-> CountedAdds(ntype, cs),
          level |-> level,
          vert |-> Strict([i \in Subs |-> u.objs[psub[i]].vert]),
          unpacked |-> Unpacked(o1, p, psub, nosolved, solver),
          q |-> UnrollQEFs(o1, psub, nosolved)]

CollectChildren(w) ==
    /\ wk[w].pc = "up"
    /\ \E p \in {wk[w].t} :
       \E pass \in {PendingGate(pending[wk[w].t])} :
       /\ calls' = [calls EXCEPT ![p] =
                      [made |-> @.made + 1,
                       passed |-> @.passed + (IF pass THEN 1 ELSE 0)]]
       /\ IF ~pass
          THEN /\ wk' = [wk EXCEPT ![w] = Idle]
               /\ last' = [op |-> "collectChildren", node |-> p, ret |-> FALSE]
               /\ pending' = [pending EXCEPT ![p] = @ - 1]
               /\ UNCHANGED <<alive, ntype, children, leaf, objs, pool,
                              doneSig, phase>>
          ELSE \E r \in {Collect(p, PoolNow, shape)} :
               \E kids \in {{ChildOf(p, i) : i \in Corners}} :
               /\ pending' = [n \in Nodes |->
                                IF n = p THEN pending[n] - 1
                                ELSE IF r.release /\ n \in kids THEN PendingInit
                                ELSE pending[n]]
               /\ ntype' = [n \in Nodes |->
                              IF n = p THEN r.type
                              ELSE IF r.release /\ n \in kids THEN "UNKNOWN"
                              ELSE ntype[n]]
               /\ leaf' = [n \in Nodes |->
                             IF n = p THEN r.leaf
                             ELSE IF r.release /\ n \in kids THEN NoLeaf
                             ELSE leaf[n]]
               /\ alive' = [n \in Nodes |->
                              alive[n] /\ ~(r.release /\ n \in kids)]
               /\ children' = DoneChildren(
                     IF r.release
                     THEN [children EXCEPT ![p] = NoChildren]
                     ELSE children, p)
               /\ objs' = r.ps.objs
               /\ pool' = [pooled |-> r.ps.pooled, gets |-> r.ps.gets,
                           puts |-> r.ps.puts]
               /\ doneSig' = [n \in Nodes |->
                                n = p \/ (doneSig[n] /\ ~(r.release /\ n \in kids))]
               /\ wk' = [wk EXCEPT ![w] = AfterNode(w, p)]
               /\ phase' = IF p = 0 THEN "built" ELSE phase
               /\ last' = [op |-> "collectChildren", node |-> p, ret |-> TRUE,
                           res |-> [r EXCEPT !.ps = 0, !.leaf = 0],
                           cs |-> children[p],
                           kidsdone |-> \A k \in kids : doneSig[k],
                           kidtypes |-> [i \in Corners |-> ntype[ChildOf(p, i)]],
                           kidlevels |-> [i \in Corners |->
                                LevelOf(ntype, leaf, ChildOf(p, i))]]
    /\ UNCHANGED <<leafDepth, maxErr, solver, shape, tasks, splits, idxCalls>>

(* ------------------------------------------------------------------ *)
(* assignIndices                                                       *)
(* ------------------------------------------------------------------ *)

RECURSIVE IndexNeighbors(_, _)
\* the neighbor table the recursion of assignIndices has built when it
\* reaches node n: neighbors.push(i, children) at every level above n
IndexNeighbors(ch, n) ==
    IF n = 0 THEN {}
    ELSE PushNeighbors(ch, IndexNeighbors(ch, ParentOf(n)), n)

\* SimplexNeighbors::getIndex: the first nonzero index that a neighbor leaf
\* has on its copy of subspace i of n, or 0
GetIndex(o, lf, nb, n, i) ==
    LET h == StrictSet({q \in Holders(lf, nb, n, i) : o[lf[q[1]].sub[q[2]]].index # 0})
    IN  IF h = {} THEN 0
        ELSE LET q == CHOOSE r \in h : \A t \in h : r[1] <= t[1]
             IN  o[lf[q[1]].sub[q[2]]].index

RECURSIVE LeafOrder(_, _, _)
\* the nodes holding a leaf, in the order the recursion visits them
LeafOrder(ch, lf, n) ==
    IF isBranch(ch, n)
    THEN LeafOrder(ch, lf, ch[n][0]) \o LeafOrder(ch, lf, ch[n][1])
         \o LeafOrder(ch, lf, ch[n][2]) \o LeafOrder(ch, lf, ch[n][3])
    ELSE IF lf[n].has THEN <<n>> ELSE <<>>

\* the counter stored but never advanced
IndexSlotStuck(acc, lf, nb, n, i) ==
    LET g == GetIndex(acc.objs, lf, nb, n, i)
        id == lf[n].sub[i]
    IN  [objs |-> [acc.objs EXCEPT ![id].index = IF g # 0 THEN g ELSE acc.index],
         index |-> acc.index]

\* slot i of the leaf of n: the index of a neighbor if there is one, else
\* the counter, which then advances
IndexSlot(acc, lf, nb, n, i) ==
    LET g == GetIndex(acc.objs, lf, nb, n, i)
        id == lf[n].sub[i]
    IN  IF g # 0
        THEN [objs |-> [acc.objs EXCEPT ![id].index = g], index |-> acc.index]
        ELSE [objs |-> [acc.objs EXCEPT ![id].index = acc.index],
              index |-> acc.index + 1]

RECURSIVE IndexLeaf(_, _, _, _, _)
\* the loop over the 3^N slots of the leaf of n, from slot i on (the counter
\* is at least 1 throughout; reading it here has each slot finished before
\* the next one is begun)
IndexLeaf(acc, lf, nb, n, i) ==
    IF i >= NumSubs \/ acc.index < 1 THEN acc
    ELSE IndexLeaf(IndexSlot(acc, lf, nb, n, i), lf, nb, n, i + 1)

RECURSIVE IndexLeaves(_, _, _, _, _)
\* the recursion over the leaves in order, from the k-th on (each leaf is
\* finished before the next one is begun)
IndexLeaves(acc, ch, lf, order, k) ==
    IF k > Len(order) \/ acc.index < 1 THEN acc
    ELSE IndexLeaves(
           IndexLeaf(acc, lf, IndexNeighbors(ch, order[k]), order[k], 0),
           ch, lf, order, k + 1)

\* the subspace objects that some leaf of the tree points to
Reachable(lf) == UNION {{lf[n].sub[i] : i \in Subs} : n \in {m \in Nodes : lf[m].has}}

AssignIndices ==
    /\ phase = "built"
    /\ idxCalls < MaxIndexCalls
    /\ \E r \in {IndexLeaves([objs |-> objs, index |-> 1], children, leaf,
                             LeafOrder(children, leaf, 0), 1)} :
         /\ objs' = r.objs
         /\ last' = [op |-> "assignIndices",
                     before |-> Strict([id \in Reachable(leaf) |-> objs[id].index]),
                     counter |-> r.index]
    /\ idxCalls' = idxCalls + 1
    /\ UNCHANGED <<leafDepth, maxErr, solver, shape, alive, ntype, children,
                   pending, leaf, pool, tasks, wk, splits, phase, doneSig, calls>>

(* ------------------------------------------------------------------ *)
(* Releasing the tree                                                  *)
(* ------------------------------------------------------------------ *)

\* the node the release of the tree reaches next: the children of a node
\* are released before the node itself, the root last
ReleaseNext(al) == MaxOf({m \in Nodes : al[m]})

\* SimplexTree::releaseTo on one node of the finished tree:
\* `if (leaf != nullptr) { leaf->releaseTo(...); leaf = nullptr; }`, then the
\* node itself goes back to its pool
ReleaseTo ==
    /\ phase \in {"built", "releasing"}
    /\ \E n \in {ReleaseNext(alive)} :
       \E r \in {IF leaf[n].has THEN LeafRelease(PoolNow, leaf[n].sub)
                 ELSE PoolNow} :
         /\ objs' = r.objs
         /\ pool' = [pooled |-> r.pooled, gets |-> r.gets, puts |-> r.puts]
         /\ leaf' = [leaf EXCEPT ![n] = NoLeaf]
         /\ alive' = [alive EXCEPT ![n] = FALSE]
         /\ children' = [children EXCEPT ![n] = NoChildren]
         /\ ntype' = [ntype EXCEPT ![n] = "UNKNOWN"]
         /\ pending' = [pending EXCEPT ![n] = PendingInit]
         /\ doneSig' = [doneSig EXCEPT ![n] = FALSE]
         /\ phase' = IF n = 0 THEN "released" ELSE "releasing"
         /\ last' = [op |-> "releaseTo", node |-> n, had |-> leaf[n].has]
    /\ UNCHANGED <<leafDepth, maxErr, solver, shape, tasks, wk, splits,
                   idxCalls, calls>>

Next ==
    \/ \E w \in WorkerIds : Pop(w)
    \/ \E w \in WorkerIds : EvalInterval(w)
    \/ \E w \in WorkerIds : EvalLeaf(w)
    \/ \E w \in WorkerIds : CollectChildren(w)
    \/ AssignIndices
    \/ ReleaseTo

Spec == Init /\ [][Next]_vars

TypeOK ==
    /\ \A n \in Nodes : ntype[n] \in Types
    /\ phase \in {"build", "built", "releasing", "released"}

(* ------------------------------------------------------------------ *)
(* Properties                                                          *)
(* ------------------------------------------------------------------ *)

\* C1 (refcount conservation): once every node of a built tree has been
\* released with releaseTo, every subspace obtained from the pool with get()
\* has been returned to it with put().
RefcountConservation == phase = "released" => pool.gets = pool.puts

\* C1, second half: the 3^N subspaces collectChildren got for a tentative
\* leaf are back in the pool when it has abandoned that leaf.
AbandonReturnsSubspaces ==
    (last.op = "collectChildren" /\ last.ret /\ last.res.kind = "abandoned")
        => \A i \in Subs : last.res.sub[i] \in pool.pooled

\* C2 (closure): a node of the tree on which done() was signaled has a type
\* other than UNKNOWN, and each of its allocated children has signaled done().
DoneClosure ==
    \A n \in Nodes :
        (alive[n] /\ doneSig[n]) =>
            /\ ntype[n] \in {"EMPTY", "FILLED", "AMBIGUOUS"}
            /\ \A i \in Corners :
                 (DepthOf(n) < MaxDepth /\ alive[ChildOf(n, i)])
                     => doneSig[ChildOf(n, i)]

\* C2 witness: a node that signaled done() after each of its 2^N children
\* did, and a node on which evalInterval signaled done()
DoneClosureWitness ==
    /\ last.op = "collectChildren" /\ last.ret
    /\ \A i \in Corners : alive[ChildOf(last.node, i)]
                          /\ doneSig[ChildOf(last.node, i)]
    /\ \E i \in Corners : ntype[ChildOf(last.node, i)] = "AMBIGUOUS"
    /\ \E i \in Corners : ~leaf[ChildOf(last.node, i)].has
                          /\ ntype[ChildOf(last.node, i)] # "AMBIGUOUS"

\* C5: a node of the tree that has signaled done() with type EMPTY or
\* FILLED holds no SimplexLeaf and has no children left.
UniformHoldsNothing ==
    \A n \in Nodes :
        (alive[n] /\ doneSig[n] /\ ntype[n] \in {"EMPTY", "FILLED"}) =>
            /\ ~leaf[n].has
            /\ children[n] = NoChildren
            /\ DepthOf(n) < MaxDepth => \A i \in Corners : ~alive[ChildOf(n, i)]

\* C5 witness: collectChildren has just released children that were all
\* EMPTY or all FILLED, themselves typed by evalLeaf, next to a node typed by
\* evalInterval
UniformHoldsNothingWitness ==
    /\ last.op = "collectChildren" /\ last.ret /\ last.res.kind = "uniform"
    /\ DepthOf(last.node) + 1 = leafDepth
    /\ ntype[last.node] \in {"EMPTY", "FILLED"} /\ doneSig[last.node]
    /\ \E n \in Nodes : /\ n # last.node /\ alive[n] /\ doneSig[n]
                        /\ DepthOf(n) < leafDepth
                        /\ ntype[n] \in {"EMPTY", "FILLED"}

\* the coordinate C6 expects on axis a of the vertex of subspace s of node n
ContainedCoordinate(n, s, a) ==
    IF Digit(s, a) = HIGH THEN RegionUpper(n, a)
    ELSE IF Digit(s, a) = LOW THEN RegionLower(n, a)
    ELSE IF solver.at = "lower" THEN RegionLower(n, a) ELSE RegionUpper(n, a)

\* C6 (containment): the vertex stored for every subspace that evalLeaf or
\* collectChildren solved has region.upper on an axis fixed HIGH, region.lower
\* on an axis fixed LOW and the coordinate solveBounded returned for it on a
\* floating axis, inside [lower, upper]; as many coordinates were unpacked as
\* the subspace has floating axes.
Containment ==
    /\ last.op = "evalLeaf" =>
         \A s \in Subs : ~last.solved[s] =>
             /\ \A a \in Axes :
                  /\ last.vert[s][a] = ContainedCoordinate(last.node, s, a)
                  /\ RegionLower(last.node, a) <= last.vert[s][a]
                  /\ last.vert[s][a] <= RegionUpper(last.node, a)
             /\ last.unpacked[s] = NI_dimension(s)
    /\ (last.op = "collectChildren" /\ last.ret
          /\ last.res.kind \in {"abandoned", "collapsed"}) =>
         \A s \in Subs :
             /\ \A a \in Axes :
                  last.res.vert[s][a] = ContainedCoordinate(last.node, s, a)
             /\ last.res.unpacked[s] = NI_dimension(s)

\* C6 witness: evalLeaf has solved a deep leaf next to a built neighbor, some
\* of its subspaces borrowed and the others solved
ContainmentWitness ==
    /\ last.op = "evalLeaf"
    /\ DepthOf(last.node) = MaxDepth
    /\ solver.at = "upper"
    /\ \E s \in Subs : last.solved[s]
    /\ \E s \in Subs : ~last.solved[s] /\ NI_dimension(s) = N
    /\ \E s \in Subs : ~last.solved[s] /\ NI_dimension(s) = 0 /\ s # 0

\* C8, in every state: of the calls of collectChildren made on one parent at
\* most one has passed the gate, one has exactly when all 2^N were made, and
\* the call that passed found all 2^N children stored and done.
FanInState ==
    /\ \A n \in Nodes :
         /\ calls[n].made <= NumCorners
         /\ calls[n].passed <= 1
         /\ calls[n].passed = 1 <=> calls[n].made = NumCorners
    /\ (last.op = "collectChildren" /\ last.ret) =>
         /\ last.kidsdone
         /\ \A i \in Corners : last.cs[i] = ChildOf(last.node, i)

\* C8, in every step: a call that does not pass the gate changes neither the
\* type, the leaf nor the children of any node.
FanInFrame ==
    (last'.op = "collectChildren" /\ ~last'.ret)
        => UNCHANGED <<ntype, leaf, children, alive, objs, pool, doneSig>>

\* C8 (fan-in): exactly one of the 2^N calls of collectChildren on a parent
\* passes the pending gate, it is the one that decrements last, all children
\* have then signaled done(), and the other calls change nothing.
FanIn == [](FanInState) /\ [][FanInFrame]_vars

\* C8 witness: the fourth call on a parent passed, after both workers had
\* been on their way to the same parent
FanInWitness ==
    /\ last.op = "collectChildren" /\ last.ret
    /\ calls[last.node].made = NumCorners
    /\ calls[last.node].passed = 1
    /\ DepthOf(last.node) = 1

\* the slots (node, subspace) of the leaves of the tree
LeafSlots == {q \in Nodes \X Subs : leaf[q[1]].has}

\* the subspace object in a slot, and the index it carries
SlotObj(q) == leaf[q[1]].sub[q[2]]
SlotIndex(q) == objs[SlotObj(q)].index

\* C3 (index density and uniqueness): after one call of assignIndices on a
\* finished tree whose indices were all 0, every slot of every leaf has an
\* index above 0, two slots have the same index exactly when they point to the
\* same subspace object, and the indices are exactly 1 .. U, U the number of
\* distinct subspace objects.
IndexDenseUnique ==
    (last.op = "assignIndices" /\ idxCalls = 1) =>
        /\ \A q \in LeafSlots : SlotIndex(q) > 0
        /\ \A q, r \in LeafSlots :
             SlotIndex(q) = SlotIndex(r) <=> SlotObj(q) = SlotObj(r)
        /\ {SlotIndex(q) : q \in LeafSlots}
             = 1 .. Cardinality({SlotObj(q) : q \in LeafSlots})

\* C3 as it holds: the same, with the geometric subspace a slot denotes in
\* place of the object it points to.
IndexDenseUniqueGeo ==
    (last.op = "assignIndices" /\ idxCalls = 1) =>
        /\ \A q \in LeafSlots : SlotIndex(q) > 0
        /\ \A q, r \in LeafSlots :
             SlotIndex(q) = SlotIndex(r)
                <=> GeoTab[q[1]][q[2]] = GeoTab[r[1]][r[2]]
        /\ {SlotIndex(q) : q \in LeafSlots}
             = 1 .. Cardinality({GeoTab[q[1]][q[2]] : q \in LeafSlots})

\* C4 (idempotence of indexing): a second call of assignIndices leaves every
\* subspace of the tree with the index the first call gave it.
IndexIdempotent ==
    (last.op = "assignIndices" /\ idxCalls = 2) =>
        \A id \in DOMAIN last.before : objs[id].index = last.before[id]

\* C3 witness: one call was made on a tree in which two leaves point to the
\* same subspace object and two leaves hold different objects for the same
\* geometric subspace
IndexDenseUniqueWitness ==
    /\ last.op = "assignIndices" /\ idxCalls = 1
    /\ \E q, r \in LeafSlots : q # r /\ SlotObj(q) = SlotObj(r)
    /\ \E q, r \in LeafSlots : /\ SlotObj(q) # SlotObj(r)
                               /\ GeoTab[q[1]][q[2]] = GeoTab[r[1]][r[2]]

\* collectChildren went as far as solving the tentative leaf of the parent
Solved == last.op = "collectChildren" /\ last.ret
          /\ last.res.kind \in {"abandoned", "collapsed"}

\* C7 (collapse): when collectChildren runs on a parent whose children are
\* neither branches nor all EMPTY or all FILLED, and the largest solve error
\* is at most max_err with max_err above 0, the parent becomes a leaf of level
\* 1 + max(child level) with the inside flags computed and the children
\* released; otherwise it holds no leaf and keeps its children.
Collapse ==
    Solved =>
        IF last.res.err <= maxErr /\ maxErr > 0
        THEN /\ leaf[last.node].has
             /\ leaf[last.node].level
                  = 1 + MaxOf({last.kidlevels[i] : i \in Corners})
             /\ \A i \in Subs :
                  objs[leaf[last.node].sub[i]].inside
                      = ShapeInside(shape, objs[leaf[last.node].sub[i]].vert)
             /\ children[last.node] = NoChildren
             /\ \A i \in Corners : ~alive[ChildOf(last.node, i)]
        ELSE /\ ~leaf[last.node].has
             /\ \A i \in Corners : /\ children[last.node][i] = ChildOf(last.node, i)
                                   /\ alive[ChildOf(last.node, i)]

\* the geometric subspace of the sibling grid that subspace j of the child at
\* corner c denotes: per axis 0 .. 4, the planes shared by two siblings at 2
GridSubspace(c, j) ==
    [a \in Axes |-> 2 * (IF HasBit(c, a) THEN 1 ELSE 0) + Digit(j, a)]

\* C9 (one star per subspace): when the 2^N children are all AMBIGUOUS
\* leaves, every geometric subspace of the sibling grid is denoted by exactly
\* one of the pairs (child, subspace) whose QEF collectChildren adds.
OneStarPerSubspace ==
    (Solved /\ \A i \in Corners : last.kidtypes[i] = "AMBIGUOUS") =>
        \A g \in [Axes -> 0 .. 4] :
            Cardinality({t \in last.res.adds : GridSubspace(t[1], t[2]) = g}) = 1

\* the side C10 gives axis d of the parent subspace for subspace j of the
\* child at corner c
MappedSide(c, j, d) ==
    IF Digit(j, d) = FLOATING THEN FLOATING
    ELSE IF (Digit(j, d) = HIGH) <=> HasBit(c, d) THEN Digit(j, d)
    ELSE FLOATING

\* C10 (child-to-parent mapping): the parent subspace that receives the QEF
\* of a counted child subspace is floating on the axes floating in j, fixed as
\* j on the axes where j is fixed on the child's own side, and floating on the
\* axes where j is fixed on the opposite side.
SubspaceMapping ==
    Solved =>
        \A t \in last.res.adds :
            \A d \in Axes : Digit(t[3], d) = MappedSide(t[1], t[2], d)

\* the closure of subspace j of a cell on the grid of its low planes (0),
\* interiors (1) and high planes (2)
CellClosure(j) ==
    {g \in [Axes -> 0 .. 2] :
        \A a \in Axes : Digit(j, a) # FLOATING => g[a] = Digit(j, a)}

\* the Unroller has just run on a leaf: in evalLeaf, or in collectChildren on
\* the tentative leaf of the parent
Unrolled == last.op = "evalLeaf" \/ Solved

\* the slots, their QEFs and the QEFs summed for them in the last Unroller run
UnrolledNow ==
    IF last.op = "evalLeaf"
    THEN [solved |-> last.solved, summed |-> last.q.summed,
          qefs |-> last.q.qefs]
    ELSE [solved |-> [i \in Subs |-> FALSE], summed |-> last.res.q.summed,
          qefs |-> last.res.q.qefs]

RECURSIVE ProjectedSum(_, _, _)
\* the sum of the projections on the axes of mask of the QEFs in the slots S
ProjectedSum(qefs, S, mask) ==
    IF S = {} THEN EmptyBag
    ELSE LET i == CHOOSE x \in S : TRUE
         IN  QEFSub(qefs[i], mask) (+) ProjectedSum(qefs, S \ {i}, mask)

\* C11 (QEF summation set) as stated: the QEF solved for a subspace s that
\* is not already solved is the sum of the projected QEFs of exactly the
\* subspaces r of the cell that contain s (of equal or higher dimension).
QEFSummationAbove ==
    Unrolled =>
        \A s \in Subs : ~UnrolledNow.solved[s] =>
            UnrolledNow.summed[s]
              = ProjectedSum(UnrolledNow.qefs,
                             {r \in Subs : CellClosure(s) \subseteq CellClosure(r)},
                             NI_floating(s))

\* C11 as it holds: the QEF solved for s is the sum of the projected QEFs of
\* exactly the subspaces r of the cell that s contains (s itself and the
\* subspaces of lower dimension in its closure).
QEFSummation ==
    Unrolled =>
        \A s \in Subs : ~UnrolledNow.solved[s] =>
            UnrolledNow.summed[s]
              = ProjectedSum(UnrolledNow.qefs,
                             {r \in Subs : CellClosure(r) \subseteq CellClosure(s)},
                             NI_floating(s))

\* C11 witness: an edge that is not already solved gets a QEF with samples in
\* it, while some slot outside the closure of the edge holds samples too
QEFSummationWitness ==
    /\ last.op = "evalLeaf"
    /\ \E s \in Subs :
         /\ NI_dimension(s) = 1 /\ ~last.solved[s]
         /\ last.q.summed[s] # EmptyBag
         /\ \E r \in Subs : /\ ~(CellClosure(r) \subseteq CellClosure(s))
                             /\ last.q.qefs[r] # EmptyBag
    /\ \E i \in Subs : last.solved[i]

\* C12 (leaf classification): when evalLeaf finishes, the type of the node is
\* FILLED exactly when all 3^N subspaces of the leaf, borrowed ones included,
\* are inside, EMPTY exactly when none is, AMBIGUOUS otherwise; the leaf is
\* released and the leaf pointer null exactly when the type is not AMBIGUOUS;
\* done() is signaled in every case.
LeafClassification ==
    last.op = "evalLeaf" =>
        /\ ntype[last.node] = "FILLED" <=> \A i \in Subs : last.inside[i]
        /\ ntype[last.node] = "EMPTY" <=> \A i \in Subs : ~last.inside[i]
        /\ ntype[last.node] \in {"FILLED", "EMPTY", "AMBIGUOUS"}
        /\ leaf[last.node].has <=> ntype[last.node] = "AMBIGUOUS"
        /\ ~leaf[last.node].has =>
              \A i \in Subs :
                 objs[last.sub[i]].refcount
                    = Cardinality({q \in LeafSlots : SlotObj(q) = last.sub[i]})
        /\ doneSig[last.node]

\* C12 witness: evalLeaf classified a leaf as FILLED or EMPTY that had
\* borrowed a subspace from a neighbor, and released it
LeafClassificationWitness ==
    /\ last.op = "evalLeaf"
    /\ ntype[last.node] \in {"FILLED", "EMPTY"}
    /\ \E i \in Subs : last.solved[i]
    /\ \E i \in Subs : ~last.solved[i]
    /\ ~leaf[last.node].has

\* the number of leaves whose sub[] array points to subspace object id
LeavesHolding(id) ==
    Cardinality({n \in Nodes : leaf[n].has /\ \E i \in Subs : leaf[n].sub[i] = id})

\* C13 (refcount invariant): between calls of evalLeaf, collectChildren and
\* releaseTo, the refcount of every subspace object is the number of leaves
\* whose sub[] points to it, and no leaf points to a subspace that was
\* returned to the pool.
RefcountInvariant ==
    /\ \A id \in DOMAIN objs : objs[id].refcount = LeavesHolding(id)
    /\ \A id \in pool.pooled : LeavesHolding(id) = 0

\* C13 witness: releaseTo has released the leaf that first allocated a
\* subspace which a neighbor had borrowed; the neighbor still points to it
RefcountInvariantWitness ==
    /\ last.op = "releaseTo" /\ last.had
    /\ \E i \in Subs :
         /\ LeavesHolding(ObjId(last.node, i)) >= 1
         /\ objs[ObjId(last.node, i)].refcount >= 1
         /\ ObjId(last.node, i) \notin pool.pooled
    /\ \E id \in pool.pooled : TRUE

\* C14 (unsafe interval evaluation): when the evaluator is not safe,
\* evalInterval stores AMBIGUOUS whatever the interval state, does not signal
\* done() and returns the tape handle it was given; when it is safe, done()
\* is signaled exactly for the states FILLED and EMPTY, and the narrowed
\* handle is returned.
UnsafeInterval ==
    last.op = "evalInterval" =>
        IF ~last.safe
        THEN /\ ntype[last.node] = "AMBIGUOUS"
             /\ ~doneSig[last.node]
             /\ last.ret = last.given
        ELSE /\ doneSig[last.node] <=> last.state \in {"FILLED", "EMPTY"}
             /\ last.ret = last.given + 1

\* C14 witness: the evaluator was not safe on a region whose interval state
\* was FILLED or EMPTY, and the node was subdivided
UnsafeIntervalWitness ==
    /\ last.op = "evalInterval" /\ ~last.safe
    /\ last.state \in {"FILLED", "EMPTY"}
    /\ \A i \in Corners : alive[ChildOf(last.node, i)]
    /\ \E t \in 1 .. Len(tasks) :
         tasks[t].target = ChildOf(last.node, 0) /\ tasks[t].tape = last.given

\* what C15 says of a step of evalLeaf, for each slot i that neighbors.check
\* answered with a neighbor leaf
BorrowFrameStep ==
    last'.op = "evalLeaf" =>
        /\ \A i \in Subs : last'.solved[i] =>
             /\ last'.sub[i] \in DOMAIN objs
             /\ \E m \in Nodes \ {last'.node}, j \in Subs :
                  /\ leaf[m].has /\ leaf[m].sub[j] = last'.sub[i]
                  /\ GeoTab[m][j] = GeoTab[last'.node][i]
             /\ last'.refs[i] = objs[last'.sub[i]].refcount + 1
             /\ objs'[last'.sub[i]].refcount
                  = objs[last'.sub[i]].refcount
                      + (IF leaf'[last'.node].has THEN 1 ELSE 0)
             /\ objs'[last'.sub[i]].qef = objs[last'.sub[i]].qef
             /\ objs'[last'.sub[i]].vert = objs[last'.sub[i]].vert
             /\ objs'[last'.sub[i]].inside = objs[last'.sub[i]].inside
             /\ objs'[last'.sub[i]].index = objs[last'.sub[i]].index
             /\ last'.unpacked[i] = 0
        /\ \A c \in Corners :
             last'.solved[CornerSub[c]] => c \notin last'.sampled

\* C15 (borrowing frame): for every slot for which neighbors.check returns a
\* neighbor leaf, evalLeaf stores the neighbor's subspace pointer, increments
\* its refcount by exactly one and leaves its qef, vert, inside and index as
\* they were: no corner sample is inserted, it is not solved again, its sign
\* is not evaluated again, and a borrowed corner is not sent to the evaluator.
BorrowFrame == [][BorrowFrameStep]_vars

\* C15 witness: evalLeaf kept a leaf that borrowed a corner and an edge whose
\* QEF holds samples, and that sampled another corner itself
BorrowFrameWitness ==
    /\ last.op = "evalLeaf" /\ leaf[last.node].has
    /\ \E c \in Corners : /\ last.solved[CornerSub[c]]
                           /\ objs[last.sub[CornerSub[c]]].qef # EmptyBag
                           /\ objs[last.sub[CornerSub[c]]].refcount >= 2
    /\ \E i \in Subs : last.solved[i] /\ NI_dimension(i) = 1
    /\ last.sampled # {}

====
